---- MODULE Spec2Model ----
(***************************************************************************)
(* A model of the chat-bot gateway: the outbound dispatch facade of        *)
(* api_mock.py (rate-limiter acquire, then the transport call), the        *)
(* wake-up link manager (send_wake_up_link), the task execution path       *)
(* (simulate_task_execution) and the command handlers of handlers.py that  *)
(* mutate the persisted config and the persisted failed-task log.          *)
(*                                                                         *)
(* utils.py (get_config_value, set_config_value, load_config, save_config, *)
(* load_failed_tasks, save_failed_tasks, enforce_api_rate_limit,           *)
(* split_long_message, clean_message_text) is not part of the sources; its *)
(* operators are written from the specification's sections 4.1-4.5.        *)
(*                                                                         *)
(* Every call into utils.py or into the facade is one atomic step of the   *)
(* calling flow; nothing in api_mock.py or handlers.py holds a lock over   *)
(* more than one such call, so two flows interleave between calls.         *)
(***************************************************************************)
EXTENDS Integers, Sequences, FiniteSets, TLC

VARIABLES
    cfg,                      \* the persisted config record (bot_config.json)
    tasks,                    \* the persisted failed-task log (failed_tasks.json)
    MOCK_MESSAGE_ID_COUNTER,  \* api_mock.py's module global (process memory)
    chat,                     \* the transport's side: every message ever sent
    trace,                    \* history: calls, acquires, transport calls, replies
    pc,                       \* per flow: the position inside its operation
    loc,                      \* per flow: the operation's local variables
    budget                    \* how many operations a run may start (fixed by Init)

vars == <<cfg, tasks, MOCK_MESSAGE_ID_COUNTER, chat, trace, pc, loc, budget>>

-----------------------------------------------------------------------------
(* Bounds and input sets *)

\* operations started in a run of the wake-up / facade specification
MaxWakeOps == 4
\* operations started in a run of the crash specification
MaxCrashOps == 3
\* crashes in a run of the crash specification
MaxCrashes == 1
\* operations started in a run of the failed-task specification
MaxTaskOps == 4
\* operations started in a run of the concurrent specification
MaxConcOps == 3
\* api_send_message calls started in a run of the concurrent-send specification
MaxSendOps == 3
\* inbound events handled in a run of the inbound specification
MaxInboundOps == 3
\* sends started in a run of the concurrent id specification
MaxIdOps == 2
\* operations started in a run of the restart specification
MaxRestartOps == 3

Procs == {1, 2}
ChatId == "chat"

\* Python's None (JSON null) is the empty tuple, a present value v is <<v>>
None == <<>>
Some(v) == <<v>>
\* Python truthiness of an optional message id (None and 0 are falsy)
Truthy(v) == v # None /\ v # Some(0)

InitialMockMessageId == 1000
MAX_CAPTION_LENGTH == 4000
MAX_FILE_SIZE_MB == 20
\* config.py's default BOT_OWNER_ID, a string
BOT_OWNER_ID == <<"1", "2", "3", "4", "5", "6", "7", "8">>

\* texts are sequences of words; "LONG" stands for a word of MAX_CAPTION_LENGTH characters
Contents == {<<"a">>, <<"b">>}
Phrases == {"ad", "via"}
Texts == {<<>>, <<"w">>, <<"ad", "w">>, <<"LONG", "w">>}
\* the texts handed to simulate_task_execution
TaskTexts == {<<>>, <<"ad", "w">>}
\* index arguments as typed, character by character
IndexStrs == {<<"0">>, <<"1">>, <<"2">>, <<"3">>, <<"-", "1">>, <<"x">>}
CallbackData == {"toggle_stickers", "toggle_photo_video", "bogus", ""}
Timestamps == {"2026-01-01 00:00:00"}
MessageIds == {100}

\* inbound messages: who sent it, what it carries, its text or caption, the
\* size in bytes of the attachment (0 when there is none)
Msg(from_user_id, kind, text, file_size) ==
    [from_user_id |-> from_user_id, kind |-> kind, text |-> text, file_size |-> file_size]
Owner == Some(12345678)
Stranger == Some(12345679)
SmallFile == 1024
LargeFile == MAX_FILE_SIZE_MB * 1024 * 1024 + 1
InboundMessages ==
    {Msg(Owner, "text", <<"w">>, 0),
     Msg(Owner, "text", <<"/settings">>, 0),
     Msg(Owner, "text", <<"/failed">>, 0),
     Msg(Owner, "text", <<"/add_task", "a">>, 0),
     Msg(Owner, "text", <<"/add_task">>, 0),
     Msg(Owner, "text", <<"/remove_task", "1">>, 0),
     Msg(Owner, "text", <<"/remove_task", "x">>, 0),
     Msg(Owner, "text", <<"/add_cleanup", "ad">>, 0),
     Msg(Owner, "text", <<"/remove_cleanup", "1">>, 0),
     Msg(Owner, "photo", <<"w">>, SmallFile),
     Msg(Owner, "video", <<>>, LargeFile),
     Msg(Owner, "document", <<"w">>, LargeFile),
     Msg(Owner, "document", <<"/add_cleanup", "ad">>, MAX_FILE_SIZE_MB * 1024 * 1024),
     Msg(Owner, "sticker", <<>>, 0),
     Msg(Owner, "poll", <<>>, 0),
     Msg(Stranger, "text", <<"/add_task", "a">>, 0),
     Msg(Stranger, "document", <<"w">>, LargeFile),
     Msg(None, "text", <<"/add_cleanup", "ad">>, 0)}

-----------------------------------------------------------------------------
(* History events *)

\* arg holds numbers, tag a string, text a sequence of words
EvT(p, ev, op, class, arg, tag, text) ==
    [p |-> p, ev |-> ev, op |-> op, class |-> class, arg |-> arg, tag |-> tag, text |-> text]
Ev(p, ev, op, class, arg, tag) == EvT(p, ev, op, class, arg, tag, <<>>)
CallEv(p, op, arg, tag) == Ev(p, "call", op, "", arg, tag)
CallEvT(p, op, arg, tag, text) == EvT(p, "call", op, "", arg, tag, text)
LogEv(p, op, tag) == Ev(p, "log", op, "", <<>>, tag)
\* arg is the time at which the limiter granted the call
AcquireEv(p, class, granted) == Ev(p, "acquire", "enforce_api_rate_limit", class, <<granted>>, "")
TransportEv(p, op, arg, tag) == Ev(p, "transport", op, "", arg, tag)
ReplyEv(p, tag) == Ev(p, "reply", "context.bot.send_message", "", <<>>, tag)
ReturnEv(p, op, arg) == Ev(p, "return", op, "", arg, "")
RaiseEv(p, op) == Ev(p, "raise", op, "", <<>>, "TransportError")

\* the indices of trace at which Test holds
Where(Test(_)) == {i \in 1..Len(trace) : Test(trace[i])}
IsCall(e) == e.ev = "call"
NumCalls == Cardinality(Where(IsCall))

-----------------------------------------------------------------------------
(* utils.py: the config store (specification 4.4) *)

DefaultConfig ==
    [STICKER_BLOCK_ENABLED |-> FALSE,
     PHOTO_VIDEO_ONLY_ENABLED |-> FALSE,
     CLEANUP_STRINGS |-> <<>>,
     LAST_LINK_MESSAGE_ID |-> None]

\* load_config(): the full snapshot of the persisted record
load_config(c) == c
\* save_config(snapshot): the persisted record rewritten in full
save_config(snapshot) == snapshot
\* get_config_value(key)
get_config_value(c, key) == load_config(c)[key]
\* set_config_value(key, value): load, set the key, persist, in one step
set_config_value(c, key, value) == save_config([load_config(c) EXCEPT ![key] = value])

(* utils.py: the failed-task log (specification 4.5) *)
load_failed_tasks(t) == t
save_failed_tasks(list) == list

(* utils.py: the rate limiter (specification 4.1); internal=True is the *)
(* internal class, the default is the primary class                      *)

\* min_interval(internal) <= min_interval(primary), in ticks of the clock
min_interval(class) == IF class = "primary" THEN 2 ELSE 1

Max(a, b) == IF a >= b THEN a ELSE b
\* the positions in the history tr that hold an acquire
Grants(tr) == {i \in 1..Len(tr) : tr[i].ev = "acquire"}
\* the clock: time passes only while a flow waits in the limiter, so the
\* clock reads the time of the latest grant
Now(tr) ==
    IF Grants(tr) = {} THEN 0
    ELSE tr[CHOOSE i \in Grants(tr) : \A j \in Grants(tr) : j <= i].arg[1]
\* RateLimitState: the class's last call timestamp, kept in process memory
\* (None before the class's first call in this process)
LastCall(tr, class) ==
    LET crashes == {i \in 1..Len(tr) : tr[i].ev = "crash"}
        mine == {i \in Grants(tr) : tr[i].class = class /\ \A c \in crashes : c < i}
    IN IF mine = {} THEN None
       ELSE Some(tr[CHOOSE i \in mine : \A j \in mine : j <= i].arg[1])

\* acquire(class): wait until min_interval(class) has passed since the class's
\* last call, record the new timestamp, return
enforce_api_rate_limit(w, p, internal) ==
    LET class == IF internal THEN "internal" ELSE "primary"
        last == LastCall(w.trace, class)
        granted == IF last = None THEN Now(w.trace)
                   ELSE Max(Now(w.trace), last[1] + min_interval(class))
    IN [w EXCEPT !.trace = Append(@, AcquireEv(p, class, granted))]

(* utils.py: the chunker (specification 4.2) on word sequences *)
WordLen(word) == IF word = "LONG" THEN MAX_CAPTION_LENGTH ELSE 1

RECURSIVE TextLen(_)
TextLen(text) ==
    IF text = <<>> THEN 0
    ELSE WordLen(Head(text)) + (IF Len(text) > 1 THEN 1 ELSE 0) + TextLen(Tail(text))

\* the longest prefix of text, in words, that fits in max_length characters
RECURSIVE FitWords(_, _, _)
FitWords(text, k, max_length) ==
    IF k < Len(text) /\ TextLen(SubSeq(text, 1, k + 1)) <= max_length
    THEN FitWords(text, k + 1, max_length)
    ELSE k

RECURSIVE SplitFrom(_, _)
SplitFrom(text, max_length) ==
    IF TextLen(text) <= max_length THEN <<text>>
    ELSE LET k == FitWords(text, 1, max_length)
         IN <<SubSeq(text, 1, k)>> \o SplitFrom(SubSeq(text, k + 1, Len(text)), max_length)

split_long_message(text) == SplitFrom(text, MAX_CAPTION_LENGTH)

(* utils.py: clean_message_text removes the configured cleanup phrases *)
clean_message_text(c, text) ==
    LET phrases == get_config_value(c, "CLEANUP_STRINGS")
        drop(word) == \E i \in 1..Len(phrases) : phrases[i] = word
    IN SelectSeq(text, LAMBDA word : ~drop(word))

-----------------------------------------------------------------------------
(* The transport collaborator: what the remote chat holds *)

Message(id, kind, text) == [id |-> id, kind |-> kind, text |-> text, live |-> TRUE]

\* deleteMessage(chat, id): the chat's messages with that id are gone
TransportDelete(c, message_id) ==
    [i \in 1..Len(c) |-> IF c[i].id = message_id THEN [c[i] EXCEPT !.live = FALSE] ELSE c[i]]

WAKE_LINK_TEXT == <<"BOT_SLEEPING">>
IsLiveWake(m) == m.live /\ m.kind = "keyboard" /\ m.text = WAKE_LINK_TEXT
LiveWake == {i \in 1..Len(chat) : IsLiveWake(chat[i])}

-----------------------------------------------------------------------------
(* api_mock.py: the dispatch facade.  A facade operation maps the world   *)
(* (history, chat, id counter) to the world after it, with its result in  *)
(* ret.                                                                   *)

World == [trace |-> trace, chat |-> chat, counter |-> MOCK_MESSAGE_ID_COUNTER, ret |-> None]

get_next_mock_message_id(w) ==
    [w EXCEPT !.counter = w.counter + 1, !.ret = Some(w.counter + 1)]

\* one iteration of api_send_message's loop over the chunks
SendChunk(w, p, chunk) ==
    LET w1 == get_next_mock_message_id(w)
        msg_id == w1.ret[1]
    IN [w1 EXCEPT !.trace = Append(@, TransportEv(p, "sendMessage", <<msg_id>>, "")),
                  !.chat = Append(@, Message(msg_id, "text", chunk))]

RECURSIVE SendChunks(_, _, _)
SendChunks(w, p, chunks) ==
    IF chunks = <<>> THEN w
    ELSE SendChunks(SendChunk(w, p, Head(chunks)), p, Tail(chunks))

\* a slip: the result is the identifier of the first chunk
api_send_message_FirstId(w, p, text) ==
    LET w1 == enforce_api_rate_limit([w EXCEPT !.ret = None], p, FALSE)
        chunks == split_long_message(text)
        first == SendChunk(w1, p, Head(chunks))
    IN [SendChunks(first, p, Tail(chunks)) EXCEPT !.ret = first.ret]

\* lines 27-41: one acquire, the chunks sent in order, the last identifier returned
\* (ret stays None when there is no chunk)
api_send_message(w, p, text) ==
    LET w1 == enforce_api_rate_limit([w EXCEPT !.ret = None], p, FALSE)
        chunks == split_long_message(text)
    IN SendChunks(w1, p, chunks)

\* a slip: the delete acquires the primary class
api_delete_message_Primary(w, p, message_id) ==
    LET w1 == enforce_api_rate_limit(w, p, FALSE)
    IN [w1 EXCEPT !.trace = Append(@, TransportEv(p, "deleteMessage", <<message_id>>, "")),
                  !.chat = TransportDelete(@, message_id),
                  !.ret = Some(1)]

api_delete_message(w, p, message_id) ==
    LET w1 == enforce_api_rate_limit(w, p, TRUE)
    IN [w1 EXCEPT !.trace = Append(@, TransportEv(p, "deleteMessage", <<message_id>>, "")),
                  !.chat = TransportDelete(@, message_id),
                  !.ret = Some(1)]

api_send_document(w, p, filename) ==
    LET w1 == enforce_api_rate_limit(w, p, FALSE)
    IN [w1 EXCEPT !.trace = Append(@, TransportEv(p, "sendDocument", <<>>, filename)),
                  !.ret = Some(1)]

api_leave_chat(w, p) ==
    LET w1 == enforce_api_rate_limit(w, p, TRUE)
    IN [w1 EXCEPT !.trace = Append(@, TransportEv(p, "leaveChat", <<>>, "")),
                  !.ret = Some(1)]

api_send_inline_keyboard(w, p, text) ==
    LET w1 == enforce_api_rate_limit(w, p, FALSE)
        w2 == get_next_mock_message_id(w1)
        msg_id == w2.ret[1]
    IN [w2 EXCEPT !.trace = Append(@, TransportEv(p, "sendButtons", <<msg_id>>, "")),
                  !.chat = Append(@, Message(msg_id, "keyboard", text))]

api_edit_message_reply_markup(w, p, message_id) ==
    LET w1 == enforce_api_rate_limit(w, p, TRUE)
    IN [w1 EXCEPT !.trace = Append(@, TransportEv(p, "editButtonMarkup", <<message_id>>, "")),
                  !.ret = Some(1)]

\* the world written back to the variables
Commit(w) ==
    /\ trace' = w.trace
    /\ chat' = w.chat
    /\ MOCK_MESSAGE_ID_COUNTER' = w.counter

-----------------------------------------------------------------------------
(* Flows *)

NoLoc ==
    [index_str |-> <<>>, content |-> <<>>, phrase |-> "", text |-> <<>>, message_id |-> 0,
     is_large_file |-> FALSE, last_link_id |-> None, new_message_id |-> None,
     tasks |-> <<>>, config |-> DefaultConfig, index |-> 0, current |-> FALSE,
     config_key |-> "", chunks |-> <<>>, kind |-> "", counter |-> 0, caller |-> ""]

\* the state after construction: nothing persisted yet, nothing sent
Fresh ==
    /\ cfg = DefaultConfig
    /\ tasks = <<>>
    /\ MOCK_MESSAGE_ID_COUNTER = InitialMockMessageId
    /\ chat = <<>>
    /\ trace = <<>>
    /\ pc = [p \in Procs |-> "idle"]
    /\ loc = [p \in Procs |-> NoLoc]

\* a flow may start an operation
CanStart(p) == pc[p] = "idle" /\ NumCalls < budget

AllIdle == \A p \in Procs : pc[p] = "idle"

Goto(p, label) == pc' = [pc EXCEPT ![p] = label]
Finish(p) == /\ pc' = [pc EXCEPT ![p] = "idle"]
             /\ loc' = [loc EXCEPT ![p] = NoLoc]

-----------------------------------------------------------------------------
(* api_mock.py: send_wake_up_link *)

\* the call, and line 84: last_link_id = get_config_value("LAST_LINK_MESSAGE_ID")
WakeGet(p) ==
    /\ CanStart(p)
    /\ trace' = Append(trace, CallEv(p, "send_wake_up_link", <<>>, ""))
    /\ loc' = [loc EXCEPT ![p].last_link_id = get_config_value(cfg, "LAST_LINK_MESSAGE_ID")]
    /\ Goto(p, "wk_delete")
    /\ UNCHANGED <<budget, cfg, tasks, MOCK_MESSAGE_ID_COUNTER, chat>>

\* a slip: the previous link is never deleted
WakeDelete_Skip(p) ==
    /\ pc[p] = "wk_delete"
    /\ Goto(p, "wk_send")
    /\ UNCHANGED <<budget, cfg, tasks, loc, trace, chat, MOCK_MESSAGE_ID_COUNTER>>

\* lines 87-88: if last_link_id: api_delete_message(chat_id, last_link_id)
WakeDelete(p) ==
    /\ pc[p] = "wk_delete"
    /\ IF Truthy(loc[p].last_link_id)
       THEN Commit(api_delete_message(World, p, loc[p].last_link_id[1]))
       ELSE UNCHANGED <<budget, trace, chat, MOCK_MESSAGE_ID_COUNTER>>
    /\ Goto(p, "wk_send")
    /\ UNCHANGED <<budget, cfg, tasks, loc>>

\* line 106: new_message_id = api_send_inline_keyboard(chat_id, link_text, reply_markup)
WakeSend(p) ==
    /\ pc[p] = "wk_send"
    /\ LET w == api_send_inline_keyboard(World, p, WAKE_LINK_TEXT)
       IN /\ Commit(w)
          /\ loc' = [loc EXCEPT ![p].new_message_id = w.ret]
    /\ Goto(p, "wk_set")
    /\ UNCHANGED <<budget, cfg, tasks>>

\* a slip: the id read at entry is saved again instead of the new one
WakeSet_Stale(p) ==
    /\ pc[p] = "wk_set"
    /\ cfg' = set_config_value(cfg, "LAST_LINK_MESSAGE_ID", loc[p].last_link_id)
    /\ trace' = Append(trace, ReturnEv(p, "send_wake_up_link", loc[p].new_message_id))
    /\ Finish(p)
    /\ UNCHANGED <<budget, tasks, MOCK_MESSAGE_ID_COUNTER, chat>>

\* lines 109-112: set_config_value("LAST_LINK_MESSAGE_ID", new_message_id); return it
WakeSet(p) ==
    /\ pc[p] = "wk_set"
    /\ cfg' = set_config_value(cfg, "LAST_LINK_MESSAGE_ID", loc[p].new_message_id)
    /\ trace' = Append(trace, ReturnEv(p, "send_wake_up_link", loc[p].new_message_id))
    /\ Finish(p)
    /\ UNCHANGED <<budget, tasks, MOCK_MESSAGE_ID_COUNTER, chat>>

(* send_wake_up_link when the transport's deleteMessage fails.  The facade  *)
(* call either reports the failure in its result or lets the transport     *)
(* error propagate (specification 6 and 7); the chat keeps the message.    *)
api_delete_message_failing(w, p, message_id) ==
    LET w1 == enforce_api_rate_limit(w, p, TRUE)
    IN [w1 EXCEPT !.trace = Append(@, TransportEv(p, "deleteMessage", <<message_id>>, "failed")),
                  !.ret = None]

\* line 88 with a falsy result: the result is not looked at, line 106 is next
WakeDeleteReturnsFalse(p) ==
    /\ pc[p] = "wk_delete"
    /\ Truthy(loc[p].last_link_id)
    /\ Commit(api_delete_message_failing(World, p, loc[p].last_link_id[1]))
    /\ Goto(p, "wk_send")
    /\ UNCHANGED <<budget, cfg, tasks, loc>>

\* line 88 with a raised error: lines 84-112 hold no try, the error leaves
\* send_wake_up_link and lines 106-112 do not run
WakeDeleteRaises(p) ==
    /\ pc[p] = "wk_delete"
    /\ Truthy(loc[p].last_link_id)
    /\ LET w == api_delete_message_failing(World, p, loc[p].last_link_id[1])
       IN Commit([w EXCEPT !.trace = Append(@, RaiseEv(p, "send_wake_up_link"))])
    /\ Finish(p)
    /\ UNCHANGED <<budget, cfg, tasks>>

-----------------------------------------------------------------------------
(* handlers.py: handle_callback_query *)

SETTINGS_MAP ==
    [toggle_stickers |-> "STICKER_BLOCK_ENABLED", toggle_photo_video |-> "PHOTO_VIDEO_ONLY_ENABLED"]
SETTINGS_MAP_get(data) ==
    IF data = "toggle_stickers" THEN SETTINGS_MAP.toggle_stickers
    ELSE IF data = "toggle_photo_video" THEN SETTINGS_MAP.toggle_photo_video
    ELSE ""

\* lines 258-270: the early returns, then current = get_config_value(config_key)
CallbackGet(p) ==
    /\ CanStart(p)
    /\ \E data \in CallbackData :
          LET config_key == SETTINGS_MAP_get(data)
              called == Append(trace, CallEv(p, "handle_callback_query", <<>>, data))
          IN IF data = ""
             THEN /\ trace' = called
                  /\ UNCHANGED <<pc, loc>>
             ELSE IF config_key = ""
             THEN /\ trace' = Append(called, Ev(p, "reply", "query.answer", "", <<>>, "Unknown setting"))
                  /\ UNCHANGED <<pc, loc>>
             ELSE /\ trace' = called
                  /\ loc' = [loc EXCEPT ![p].config_key = config_key,
                                         ![p].current = get_config_value(cfg, config_key)]
                  /\ Goto(p, "cb_set")
    /\ UNCHANGED <<budget, cfg, tasks, MOCK_MESSAGE_ID_COUNTER, chat>>

\* a slip: the click switches the setting on instead of negating it
CallbackSet_SwitchOn(p) ==
    /\ pc[p] = "cb_set"
    /\ cfg' = set_config_value(cfg, loc[p].config_key, TRUE)
    /\ trace' = Append(trace, Ev(p, "reply", "query.answer", "", <<>>, "ON"))
    /\ Goto(p, "cb_menu")
    /\ UNCHANGED <<budget, tasks, MOCK_MESSAGE_ID_COUNTER, chat, loc>>

\* lines 271-272: set_config_value(config_key, not current); query.answer(...)
CallbackSet(p) ==
    /\ pc[p] = "cb_set"
    /\ cfg' = set_config_value(cfg, loc[p].config_key, ~loc[p].current)
    /\ trace' = Append(trace, Ev(p, "reply", "query.answer", "", <<>>,
                                 IF ~loc[p].current THEN "ON" ELSE "OFF"))
    /\ Goto(p, "cb_menu")
    /\ UNCHANGED <<budget, tasks, MOCK_MESSAGE_ID_COUNTER, chat, loc>>

\* line 274 and lines 64-79: send_settings_menu reads both toggles and replies
CallbackMenu(p) ==
    /\ pc[p] = "cb_menu"
    /\ trace' = Append(trace, ReplyEv(p,
            IF get_config_value(cfg, "STICKER_BLOCK_ENABLED")
            THEN (IF get_config_value(cfg, "PHOTO_VIDEO_ONLY_ENABLED") THEN "menu ON ON" ELSE "menu ON OFF")
            ELSE (IF get_config_value(cfg, "PHOTO_VIDEO_ONLY_ENABLED") THEN "menu OFF ON" ELSE "menu OFF OFF")))
    /\ Finish(p)
    /\ UNCHANGED <<budget, cfg, tasks, MOCK_MESSAGE_ID_COUNTER, chat>>

-----------------------------------------------------------------------------
(* Python built-ins the handlers use *)

Digits == <<"0", "1", "2", "3", "4", "5", "6", "7", "8", "9">>
IsDigit(ch) == \E d \in 1..Len(Digits) : Digits[d] = ch
DigitVal(ch) == (CHOOSE d \in 1..Len(Digits) : Digits[d] = ch) - 1

RECURSIVE DigitsVal(_)
DigitsVal(chars) ==
    IF chars = <<>> THEN 0
    ELSE DigitsVal(SubSeq(chars, 1, Len(chars) - 1)) * 10 + DigitVal(chars[Len(chars)])

AllDigits(chars) == chars # <<>> /\ \A k \in 1..Len(chars) : IsDigit(chars[k])
\* int(s) raises ValueError unless s is an optionally signed run of digits
IntRaises(chars) ==
    IF chars # <<>> /\ Head(chars) \in {"-", "+"} THEN ~AllDigits(Tail(chars)) ELSE ~AllDigits(chars)
int(chars) ==
    IF Head(chars) = "-" THEN 0 - DigitsVal(Tail(chars))
    ELSE IF Head(chars) = "+" THEN DigitsVal(Tail(chars))
    ELSE DigitsVal(chars)

\* list.pop(index): a negative index counts from the end
PopPosition(list, index) == IF index < 0 THEN index + Len(list) + 1 ELSE index + 1
PopRaises(list, index) == PopPosition(list, index) < 1 \/ PopPosition(list, index) > Len(list)
Popped(list, index) == list[PopPosition(list, index)]
AfterPop(list, index) ==
    LET k == PopPosition(list, index)
    IN SubSeq(list, 1, k - 1) \o SubSeq(list, k + 1, Len(list))

PREVIEW_LENGTH == 30
\* s[:30] on a sequence of words; a word cut short is written "CUT"
Slice30(text) ==
    IF TextLen(text) <= PREVIEW_LENGTH THEN text
    ELSE SubSeq(text, 1, FitWords(text, 0, PREVIEW_LENGTH)) \o <<"CUT">>

-----------------------------------------------------------------------------
(* handlers.py: the failed-task commands *)

ManualTask(timestamp, content) ==
    [timestamp |-> timestamp, chat_id |-> ChatId, message_id |-> 0,
     reason |-> "MANUAL ENTRY", content_preview |-> Slice30(content) \o <<"...">>]

\* the call and line 97: tasks = load_failed_tasks()
AddTaskLoad(p) ==
    /\ CanStart(p)
    /\ \E content \in Contents :
          /\ trace' = Append(trace, CallEvT(p, "add_failed_task_manual", <<>>, "", content))
          /\ loc' = [loc EXCEPT ![p].content = content, ![p].tasks = load_failed_tasks(tasks)]
    /\ Goto(p, "at_loaded")
    /\ UNCHANGED <<budget, cfg, tasks, MOCK_MESSAGE_ID_COUNTER, chat>>

\* a slip: the new task is put in front
AddTaskSave_Prepend(p) ==
    /\ pc[p] = "at_loaded"
    /\ \E timestamp \in Timestamps :
          tasks' = save_failed_tasks(<<ManualTask(timestamp, loc[p].content)>> \o loc[p].tasks)
    /\ trace' = Append(trace, EvT(p, "reply", "context.bot.send_message", "", <<>>,
                                  "Manual task added", loc[p].content))
    /\ Finish(p)
    /\ UNCHANGED <<budget, cfg, MOCK_MESSAGE_ID_COUNTER, chat>>

\* lines 98-107: tasks.append({...}); save_failed_tasks(tasks); the reply
AddTaskSave(p) ==
    /\ pc[p] = "at_loaded"
    /\ \E timestamp \in Timestamps :
          tasks' = save_failed_tasks(Append(loc[p].tasks, ManualTask(timestamp, loc[p].content)))
    /\ trace' = Append(trace, EvT(p, "reply", "context.bot.send_message", "", <<>>,
                                  "Manual task added", loc[p].content))
    /\ Finish(p)
    /\ UNCHANGED <<budget, cfg, MOCK_MESSAGE_ID_COUNTER, chat>>

\* a slip: no lower bound on the index
IndexInRange_NoLowerBound(index, length) == index < length

\* line 113 and line 147: 0 <= index < len(list)
IndexInRange(index, length) == 0 <= index /\ index < length

\* the call and lines 111-112: index = int(index_str) - 1; tasks = load_failed_tasks();
\* lines 121-122 when int() raises ValueError
RemoveTaskLoad(p) ==
    /\ CanStart(p)
    /\ \E index_str \in IndexStrs :
          LET called == Append(trace, CallEvT(p, "remove_failed_task", <<>>, "", index_str))
          IN IF IntRaises(index_str)
             THEN /\ trace' = Append(called, ReplyEv(p, "Invalid format"))
                  /\ UNCHANGED <<pc, loc>>
             ELSE /\ trace' = called
                  /\ loc' = [loc EXCEPT ![p].index_str = index_str,
                                         ![p].index = int(index_str) - 1,
                                         ![p].tasks = load_failed_tasks(tasks)]
                  /\ Goto(p, "rt_loaded")
    /\ UNCHANGED <<budget, cfg, tasks, MOCK_MESSAGE_ID_COUNTER, chat>>

\* lines 113-120: the range check, then pop, save and reply, or the reply alone
RemoveTaskSave(p) ==
    /\ pc[p] = "rt_loaded"
    /\ LET index == loc[p].index
           list == loc[p].tasks
       IN IF IndexInRange(index, Len(list))
          THEN IF PopRaises(list, index)
               THEN /\ trace' = Append(trace, Ev(p, "raise", "remove_failed_task", "", <<>>, "IndexError"))
                    /\ UNCHANGED tasks
               ELSE /\ tasks' = save_failed_tasks(AfterPop(list, index))
                    /\ trace' = Append(trace, EvT(p, "reply", "context.bot.send_message", "",
                                                  <<index + 1>>, "Task removed",
                                                  Popped(list, index).content_preview))
          ELSE /\ trace' = Append(trace, EvT(p, "reply", "context.bot.send_message", "",
                                             <<Len(list)>>, "Invalid index", <<>>))
               /\ UNCHANGED tasks
    /\ Finish(p)
    /\ UNCHANGED <<budget, cfg, MOCK_MESSAGE_ID_COUNTER, chat>>

-----------------------------------------------------------------------------
(* handlers.py: the cleanup-phrase commands *)

\* the call and line 137: config = load_config()
CleanupAddLoad(p) ==
    /\ CanStart(p)
    /\ \E phrase \in Phrases :
          /\ trace' = Append(trace, CallEv(p, "add_cleanup_string", <<>>, phrase))
          /\ loc' = [loc EXCEPT ![p].phrase = phrase, ![p].config = load_config(cfg)]
    /\ Goto(p, "ca_loaded")
    /\ UNCHANGED <<budget, cfg, tasks, MOCK_MESSAGE_ID_COUNTER, chat>>

\* lines 138-140: config['CLEANUP_STRINGS'].append(phrase); save_config(config); the reply
CleanupAddSave(p) ==
    /\ pc[p] = "ca_loaded"
    /\ cfg' = save_config([loc[p].config EXCEPT !.CLEANUP_STRINGS = Append(@, loc[p].phrase)])
    /\ trace' = Append(trace, ReplyEv(p, "Cleanup string added"))
    /\ Finish(p)
    /\ UNCHANGED <<budget, tasks, MOCK_MESSAGE_ID_COUNTER, chat>>

\* the call and lines 144-145: index = int(index_str) - 1; config = load_config();
\* lines 156-157 when int() raises ValueError
CleanupRemoveLoad(p) ==
    /\ CanStart(p)
    /\ \E index_str \in IndexStrs :
          LET called == Append(trace, CallEvT(p, "remove_cleanup_string", <<>>, "", index_str))
          IN IF IntRaises(index_str)
             THEN /\ trace' = Append(called, ReplyEv(p, "Invalid format"))
                  /\ UNCHANGED <<pc, loc>>
             ELSE /\ trace' = called
                  /\ loc' = [loc EXCEPT ![p].index_str = index_str,
                                         ![p].index = int(index_str) - 1,
                                         ![p].config = load_config(cfg)]
                  /\ Goto(p, "cr_loaded")
    /\ UNCHANGED <<budget, cfg, tasks, MOCK_MESSAGE_ID_COUNTER, chat>>

\* lines 146-155: the range check, then pop, save_config and reply, or the reply alone
CleanupRemoveSave(p) ==
    /\ pc[p] = "cr_loaded"
    /\ LET index == loc[p].index
           cleanup_list == loc[p].config.CLEANUP_STRINGS
       IN IF IndexInRange(index, Len(cleanup_list))
          THEN IF PopRaises(cleanup_list, index)
               THEN /\ trace' = Append(trace, Ev(p, "raise", "remove_cleanup_string", "", <<>>, "IndexError"))
                    /\ UNCHANGED cfg
               ELSE /\ cfg' = save_config([loc[p].config EXCEPT
                                              !.CLEANUP_STRINGS = AfterPop(cleanup_list, index)])
                    /\ trace' = Append(trace, Ev(p, "reply", "context.bot.send_message", "",
                                                 <<index + 1>>, "Cleanup string removed"))
          ELSE /\ trace' = Append(trace, Ev(p, "reply", "context.bot.send_message", "",
                                            <<Len(cleanup_list)>>, "Invalid index"))
               /\ UNCHANGED cfg
    /\ Finish(p)
    /\ UNCHANGED <<budget, tasks, MOCK_MESSAGE_ID_COUNTER, chat>>

-----------------------------------------------------------------------------
(* handlers.py: handle_incoming_message *)

RECURSIVE DigitsOf(_)
DigitsOf(n) ==
    IF n < 10 THEN <<Digits[n + 1]>> ELSE DigitsOf(n \div 10) \o <<Digits[(n % 10) + 1]>>
\* str() of an optional user id
str(v) == IF v = None THEN <<"N", "o", "n", "e">> ELSE DigitsOf(v[1])

\* a slip: everybody is the owner
IsOwner_Anybody(from_user_id) == TRUE

\* line 177: str(from_user_id) != str(BOT_OWNER_ID) is the denial
IsOwner(from_user_id) == str(from_user_id) = BOT_OWNER_ID

\* lines 33-37: the attachment is larger than MAX_FILE_SIZE_MB megabytes
IsLargeFile(kind, file_size) ==
    kind \in {"document", "video", "photo"} /\ file_size > MAX_FILE_SIZE_MB * 1024 * 1024

CommandWords ==
    {"/start", "/help", "/settings", "/run_task", "/finish", "/log", "/failed", "/add_task",
     "/remove_task", "/list_cleanup", "/add_cleanup", "/remove_cleanup"}
\* text.startswith('/'): the texts of the model begin with a command word or with none
StartsWithSlash(text) == text # <<>> /\ Head(text) \in CommandWords
\* line 182: command = text.split()[0].lower() if text and text.startswith('/') else None
Command(text) == IF StartsWithSlash(text) THEN Head(text) ELSE ""
\* text.split(maxsplit=1)[1] if len(text.split()) > 1 else None
Argument(text) == IF Len(text) > 1 THEN Tail(text) ELSE <<>>

\* a slip: the photo/video-only filter lets commands through
check_allowed_message_type_CommandsPass(c, is_sticker, is_photo, is_video, text) ==
    IF is_sticker /\ get_config_value(c, "STICKER_BLOCK_ENABLED")
    THEN [allowed |-> FALSE, reply |-> "Sticker processing is OFF"]
    ELSE IF get_config_value(c, "PHOTO_VIDEO_ONLY_ENABLED")
    THEN IF is_photo \/ is_video \/ StartsWithSlash(text)
         THEN [allowed |-> TRUE, reply |-> ""]
         ELSE [allowed |-> FALSE, reply |-> "Filter Active"]
    ELSE [allowed |-> TRUE, reply |-> ""]

\* lines 41-61: the verdict and the reply sent with it ("" for none)
check_allowed_message_type(c, is_sticker, is_photo, is_video, text) ==
    IF is_sticker /\ get_config_value(c, "STICKER_BLOCK_ENABLED")
    THEN [allowed |-> FALSE, reply |-> "Sticker processing is OFF"]
    ELSE IF get_config_value(c, "PHOTO_VIDEO_ONLY_ENABLED")
    THEN IF is_photo \/ is_video
         THEN [allowed |-> TRUE, reply |-> ""]
         ELSE [allowed |-> FALSE, reply |-> IF ~StartsWithSlash(text) THEN "Filter Active" ELSE ""]
    ELSE [allowed |-> TRUE, reply |-> ""]

\* the call; lines 172-181: the security check, then safely_extract_content
InboundStart(p) ==
    /\ CanStart(p)
    /\ \E m \in InboundMessages :
          LET called == Append(trace, CallEvT(p, "handle_incoming_message",
                                              <<m.file_size>> \o m.from_user_id, m.kind, m.text))
          IN IF ~IsOwner(m.from_user_id)
             THEN /\ trace' = Append(called, ReplyEv(p, "Unauthorized access denied"))
                  /\ UNCHANGED <<pc, loc>>
             ELSE /\ trace' = called
                  /\ loc' = [loc EXCEPT ![p].text = m.text, ![p].kind = m.kind,
                                         ![p].is_large_file = IsLargeFile(m.kind, m.file_size)]
                  /\ Goto(p, "in_filter")
    /\ UNCHANGED <<budget, cfg, tasks, MOCK_MESSAGE_ID_COUNTER, chat>>

\* lines 185-186: if not check_allowed_message_type(...): return
InboundFilter(p) ==
    /\ pc[p] = "in_filter"
    /\ LET verdict == check_allowed_message_type(cfg, loc[p].kind = "sticker", loc[p].kind = "photo",
                                                 loc[p].kind = "video", loc[p].text)
       IN /\ trace' = IF verdict.reply = "" THEN trace ELSE Append(trace, ReplyEv(p, verdict.reply))
          /\ IF verdict.allowed
             THEN Goto(p, "in_route") /\ UNCHANGED loc
             ELSE Finish(p)
    /\ UNCHANGED <<budget, cfg, tasks, MOCK_MESSAGE_ID_COUNTER, chat>>

\* a reply and the return
ReplyAndReturn(p, tag) ==
    /\ trace' = Append(trace, ReplyEv(p, tag))
    /\ Finish(p)

\* lines 188-255: the large-file block, then the command routing, up to the
\* first call into the persisted state of the routed command
InboundRoute(p) ==
    /\ pc[p] = "in_route"
    /\ LET text == loc[p].text
           command == Command(text)
           argument == Argument(text)
       IN IF loc[p].is_large_file
          THEN \* lines 189-192, then line 97 of add_failed_task_manual
               /\ trace' = Append(trace, ReplyEv(p, "FAILURE: file exceeds the safety limit"))
               /\ loc' = [loc EXCEPT ![p].content = IF text # <<>> THEN text
                                                    ELSE <<"LARGE FILE BLOCKED">>,
                                      ![p].tasks = load_failed_tasks(tasks)]
               /\ Goto(p, "at_loaded")
          ELSE IF command = "/settings"
          THEN /\ Goto(p, "cb_menu") /\ UNCHANGED <<trace, loc>>
          ELSE IF command = "/add_task"
          THEN IF argument # <<>>
               THEN /\ loc' = [loc EXCEPT ![p].content = argument, ![p].tasks = load_failed_tasks(tasks)]
                    /\ Goto(p, "at_loaded")
                    /\ UNCHANGED trace
               ELSE ReplyAndReturn(p, "Usage: /add_task")
          ELSE IF command = "/remove_task"
          THEN IF argument = <<>> THEN ReplyAndReturn(p, "Usage: /remove_task")
               ELSE IF IntRaises(argument) THEN ReplyAndReturn(p, "Invalid format")
               ELSE /\ loc' = [loc EXCEPT ![p].index_str = argument,
                                           ![p].index = int(argument) - 1,
                                           ![p].tasks = load_failed_tasks(tasks)]
                    /\ Goto(p, "rt_loaded")
                    /\ UNCHANGED trace
          ELSE IF command = "/add_cleanup"
          THEN IF argument # <<>>
               THEN /\ loc' = [loc EXCEPT ![p].phrase = Head(argument), ![p].config = load_config(cfg)]
                    /\ Goto(p, "ca_loaded")
                    /\ UNCHANGED trace
               ELSE ReplyAndReturn(p, "Usage: /add_cleanup")
          ELSE IF command = "/remove_cleanup"
          THEN IF argument = <<>> THEN ReplyAndReturn(p, "Usage: /remove_cleanup")
               ELSE IF IntRaises(argument) THEN ReplyAndReturn(p, "Invalid format")
               ELSE /\ loc' = [loc EXCEPT ![p].index_str = argument,
                                           ![p].index = int(argument) - 1,
                                           ![p].config = load_config(cfg)]
                    /\ Goto(p, "cr_loaded")
                    /\ UNCHANGED trace
          ELSE IF command # "" THEN ReplyAndReturn(p, command)
          ELSE ReplyAndReturn(p, "Message/task processed")
    /\ UNCHANGED <<budget, cfg, tasks, MOCK_MESSAGE_ID_COUNTER, chat>>

-----------------------------------------------------------------------------
(* api_mock.py: simulate_task_execution *)

FailedTask(timestamp, message_id, cleaned_text) ==
    [timestamp |-> timestamp, chat_id |-> ChatId, message_id |-> message_id,
     reason |-> "Simulated External API Timeout or Processing Error.",
     content_preview |-> IF cleaned_text # <<>> THEN Slice30(cleaned_text) \o <<"...">>
                         ELSE <<"[No content]">>]

\* the call; lines 123-128: the large-file block; line 131: clean_message_text(text)
SimStart(p) ==
    /\ CanStart(p)
    /\ \E message_id \in MessageIds, text \in TaskTexts, is_large_file \in BOOLEAN :
          LET called == [World EXCEPT !.trace = Append(@,
                            CallEvT(p, "simulate_task_execution", <<message_id>>,
                                    IF is_large_file THEN "large" ELSE "", text))]
          IN IF is_large_file
             THEN LET w == api_send_message(called, p, <<"FAILURE", "RESOURCE_EXHAUSTION">>)
                  IN /\ Commit([w EXCEPT !.trace = Append(@, ReturnEv(p, "simulate_task_execution", <<0>>))])
                     /\ UNCHANGED <<pc, loc>>
             ELSE /\ Commit(called)
                  /\ loc' = [loc EXCEPT ![p].message_id = message_id,
                                         ![p].text = clean_message_text(cfg, text)]
                  /\ Goto(p, "sim_cleaned")
    /\ UNCHANGED <<budget, cfg, tasks>>

\* line 137 true, line 141: tasks = load_failed_tasks()
SimFailLoad(p) ==
    /\ pc[p] = "sim_cleaned"
    /\ loc' = [loc EXCEPT ![p].tasks = load_failed_tasks(tasks)]
    /\ Goto(p, "sim_loaded")
    /\ UNCHANGED <<budget, cfg, tasks, MOCK_MESSAGE_ID_COUNTER, chat, trace>>

\* a slip: the task is recorded twice
SimFailSave_Twice(p) ==
    /\ pc[p] = "sim_loaded"
    /\ \E timestamp \in Timestamps :
          LET task == FailedTask(timestamp, loc[p].message_id, loc[p].text)
          IN tasks' = save_failed_tasks(loc[p].tasks \o <<task, task>>)
    /\ trace' = Append(trace, LogEv(p, "simulate_task_execution", "Task FAILED persistently"))
    /\ Goto(p, "sim_saved")
    /\ UNCHANGED <<budget, cfg, MOCK_MESSAGE_ID_COUNTER, chat, loc>>

\* lines 142-152: tasks.append({...}); save_failed_tasks(tasks); the warning
SimFailSave(p) ==
    /\ pc[p] = "sim_loaded"
    /\ \E timestamp \in Timestamps :
          tasks' = save_failed_tasks(
                      Append(loc[p].tasks, FailedTask(timestamp, loc[p].message_id, loc[p].text)))
    /\ trace' = Append(trace, LogEv(p, "simulate_task_execution", "Task FAILED persistently"))
    /\ Goto(p, "sim_saved")
    /\ UNCHANGED <<budget, cfg, MOCK_MESSAGE_ID_COUNTER, chat, loc>>

\* lines 153-154: the failure notice; return False
SimFailNotify(p) ==
    /\ pc[p] = "sim_saved"
    /\ LET w == api_send_message(World, p, <<"TASK_FAILED">>)
       IN Commit([w EXCEPT !.trace = Append(@, ReturnEv(p, "simulate_task_execution", <<0>>))])
    /\ Finish(p)
    /\ UNCHANGED <<budget, cfg, tasks>>

\* line 137 false, lines 159-166: the result message; return True
SimSuccess(p) ==
    /\ pc[p] = "sim_cleaned"
    /\ LET w == api_send_message(World, p, <<"TASK_COMPLETE">> \o loc[p].text)
       IN Commit([w EXCEPT !.trace = Append(@, ReturnEv(p, "simulate_task_execution", <<1>>))])
    /\ Finish(p)
    /\ UNCHANGED <<budget, cfg, tasks>>

-----------------------------------------------------------------------------
(* The process dies and is started again: the files and the chat stay, the *)
(* flows and api_mock.py's module globals are those of a new process       *)

IsCrash(e) == e.ev = "crash"

\* a slip: what was persisted is gone after the restart
Crash_ForgetsConfig ==
    /\ Cardinality(Where(IsCrash)) < MaxCrashes
    /\ ~AllIdle
    /\ trace' = Append(trace, Ev(0, "crash", "", "", <<>>, ""))
    /\ pc' = [p \in Procs |-> "idle"]
    /\ loc' = [p \in Procs |-> NoLoc]
    /\ MOCK_MESSAGE_ID_COUNTER' = InitialMockMessageId
    /\ cfg' = DefaultConfig
    /\ UNCHANGED <<budget, tasks, chat>>

Crash ==
    /\ Cardinality(Where(IsCrash)) < MaxCrashes
    /\ ~AllIdle
    /\ trace' = Append(trace, Ev(0, "crash", "", "", <<>>, ""))
    /\ pc' = [p \in Procs |-> "idle"]
    /\ loc' = [p \in Procs |-> NoLoc]
    /\ MOCK_MESSAGE_ID_COUNTER' = InitialMockMessageId
    /\ UNCHANGED <<budget, cfg, tasks, chat>>

-----------------------------------------------------------------------------
(* api_mock.py: the facade operations called on their own by a flow *)

SETTINGS_TEXT == <<"SETTINGS">>
LOG_FILE == "bot_activity.log"

CallSendMessage(p) ==
    /\ CanStart(p)
    /\ \E text \in Texts :
          LET w0 == [World EXCEPT !.trace = Append(@, CallEvT(p, "api_send_message", <<>>, "", text))]
              w == api_send_message(w0, p, text)
          IN Commit([w EXCEPT !.trace = Append(@, ReturnEv(p, "api_send_message", w.ret))])
    /\ UNCHANGED <<budget, cfg, tasks, pc, loc>>

CallDeleteMessage(p) ==
    /\ CanStart(p)
    /\ \E i \in 1..Len(chat) :
          LET w0 == [World EXCEPT !.trace = Append(@, CallEv(p, "api_delete_message", <<chat[i].id>>, ""))]
          IN Commit(api_delete_message(w0, p, chat[i].id))
    /\ UNCHANGED <<budget, cfg, tasks, pc, loc>>

CallSendDocument(p) ==
    /\ CanStart(p)
    /\ LET w0 == [World EXCEPT !.trace = Append(@, CallEv(p, "api_send_document", <<>>, LOG_FILE))]
       IN Commit(api_send_document(w0, p, LOG_FILE))
    /\ UNCHANGED <<budget, cfg, tasks, pc, loc>>

CallLeaveChat(p) ==
    /\ CanStart(p)
    /\ LET w0 == [World EXCEPT !.trace = Append(@, CallEv(p, "api_leave_chat", <<>>, ""))]
       IN Commit(api_leave_chat(w0, p))
    /\ UNCHANGED <<budget, cfg, tasks, pc, loc>>

CallSendInlineKeyboard(p) ==
    /\ CanStart(p)
    /\ LET w0 == [World EXCEPT !.trace = Append(@, CallEv(p, "api_send_inline_keyboard", <<>>, ""))]
           w == api_send_inline_keyboard(w0, p, SETTINGS_TEXT)
       IN Commit([w EXCEPT !.trace = Append(@, ReturnEv(p, "api_send_inline_keyboard", w.ret))])
    /\ UNCHANGED <<budget, cfg, tasks, pc, loc>>

CallEditMessageReplyMarkup(p) ==
    /\ CanStart(p)
    /\ \E i \in 1..Len(chat) :
          /\ chat[i].kind = "keyboard"
          /\ LET w0 == [World EXCEPT !.trace =
                            Append(@, CallEv(p, "api_edit_message_reply_markup", <<chat[i].id>>, ""))]
             IN Commit(api_edit_message_reply_markup(w0, p, chat[i].id))
    /\ UNCHANGED <<budget, cfg, tasks, pc, loc>>

-----------------------------------------------------------------------------
(* api_mock.py: api_send_message run by concurrent flows.  The function     *)
(* takes no lock: a flow can be preempted at the limiter's wait and between *)
(* two iterations of the loop over the chunks.                              *)

\* the call; line 27: enforce_api_rate_limit(); line 30: chunks = split_long_message(text)
SendMessageAcquire(p) ==
    /\ CanStart(p)
    /\ \E text \in Texts :
          /\ Commit(enforce_api_rate_limit(
                 [World EXCEPT !.trace = Append(@, CallEvT(p, "api_send_message", <<>>, "", text))],
                 p, FALSE))
          /\ loc' = [loc EXCEPT ![p].chunks = split_long_message(text), ![p].new_message_id = None]
    /\ Goto(p, "sm_loop")
    /\ UNCHANGED <<budget, cfg, tasks>>

\* lines 33-37: one iteration of the loop
SendMessageChunk(p) ==
    /\ pc[p] = "sm_loop"
    /\ loc[p].chunks # <<>>
    /\ LET w == SendChunk(World, p, Head(loc[p].chunks))
       IN /\ Commit(w)
          /\ loc' = [loc EXCEPT ![p].chunks = Tail(@), ![p].new_message_id = w.ret]
    /\ UNCHANGED <<budget, cfg, tasks, pc>>

\* line 41: return message_ids[-1] if message_ids else None
SendMessageReturn(p) ==
    /\ pc[p] = "sm_loop"
    /\ loc[p].chunks = <<>>
    /\ trace' = Append(trace, ReturnEv(p, "api_send_message", loc[p].new_message_id))
    /\ Finish(p)
    /\ UNCHANGED <<budget, cfg, tasks, MOCK_MESSAGE_ID_COUNTER, chat>>

-----------------------------------------------------------------------------
(* api_mock.py: get_next_mock_message_id run by concurrent flows.  The      *)
(* counter is a module global updated with no lock: line 20 reads it and    *)
(* writes it back one higher, line 21 reads it again for the result, and a  *)
(* flow can be preempted between any two of the three.                      *)

\* api_send_message up to its first get_next_mock_message_id():
\* the call; line 27: enforce_api_rate_limit(); line 30: the chunks
IdSendMessageAcquire(p) ==
    /\ CanStart(p)
    /\ \E text \in Texts :
          /\ Commit(enforce_api_rate_limit(
                 [World EXCEPT !.trace = Append(@, CallEvT(p, "api_send_message", <<>>, "", text))],
                 p, FALSE))
          /\ loc' = [loc EXCEPT ![p].chunks = split_long_message(text), ![p].new_message_id = None,
                                 ![p].caller = "api_send_message"]
    /\ Goto(p, "id_load")
    /\ UNCHANGED <<budget, cfg, tasks>>

\* send_wake_up_link's api_send_inline_keyboard up to get_next_mock_message_id():
\* line 65: enforce_api_rate_limit()
IdKeyboardAcquire(p) ==
    /\ pc[p] = "wk_send"
    /\ Commit(enforce_api_rate_limit(World, p, FALSE))
    /\ loc' = [loc EXCEPT ![p].caller = "api_send_inline_keyboard"]
    /\ Goto(p, "id_load")
    /\ UNCHANGED <<budget, cfg, tasks>>

\* line 20, the read of MOCK_MESSAGE_ID_COUNTER += 1
IdLoad(p) ==
    /\ pc[p] = "id_load"
    /\ loc' = [loc EXCEPT ![p].counter = MOCK_MESSAGE_ID_COUNTER]
    /\ Goto(p, "id_store")
    /\ UNCHANGED <<budget, cfg, tasks, MOCK_MESSAGE_ID_COUNTER, chat, trace>>

\* line 20, the write of MOCK_MESSAGE_ID_COUNTER += 1
IdStore(p) ==
    /\ pc[p] = "id_store"
    /\ MOCK_MESSAGE_ID_COUNTER' = loc[p].counter + 1
    /\ Goto(p, "id_return")
    /\ UNCHANGED <<budget, cfg, tasks, chat, trace, loc>>

\* line 21: return MOCK_MESSAGE_ID_COUNTER, and the send that uses the id
\* (lines 36-37 of api_send_message, lines 67-69 of api_send_inline_keyboard)
IdReturn(p) ==
    /\ pc[p] = "id_return"
    /\ LET msg_id == MOCK_MESSAGE_ID_COUNTER
       IN IF loc[p].caller = "api_send_message"
          THEN /\ trace' = Append(trace, TransportEv(p, "sendMessage", <<msg_id>>, ""))
               /\ chat' = Append(chat, Message(msg_id, "text", Head(loc[p].chunks)))
               /\ loc' = [loc EXCEPT ![p].chunks = Tail(@), ![p].new_message_id = Some(msg_id)]
               /\ Goto(p, IF Tail(loc[p].chunks) # <<>> THEN "id_load" ELSE "sm_loop")
          ELSE /\ trace' = Append(trace, TransportEv(p, "sendButtons", <<msg_id>>, ""))
               /\ chat' = Append(chat, Message(msg_id, "keyboard", WAKE_LINK_TEXT))
               /\ loc' = [loc EXCEPT ![p].new_message_id = Some(msg_id)]
               /\ Goto(p, "wk_set")
    /\ UNCHANGED <<budget, cfg, tasks, MOCK_MESSAGE_ID_COUNTER>>

-----------------------------------------------------------------------------
(* The wake-up link manager and the facade, called by one sequential flow *)

InitWake == Fresh /\ budget = MaxWakeOps

NextWake ==
    \E p \in {1} :
        \/ WakeGet(p)
        \/ WakeDelete(p)
        \/ WakeSend(p)
        \/ WakeSet(p)
        \/ CallSendMessage(p)
        \/ CallDeleteMessage(p)
        \/ CallSendDocument(p)
        \/ CallLeaveChat(p)
        \/ CallSendInlineKeyboard(p)
        \/ CallEditMessageReplyMarkup(p)

SpecWake == InitWake /\ [][NextWake]_vars

(* The same flow over a transport whose deleteMessage may fail *)
NextFault ==
    \/ NextWake
    \/ \E p \in {1} : WakeDeleteReturnsFalse(p) \/ WakeDeleteRaises(p)

SpecFault == InitWake /\ [][NextFault]_vars

(* One sequential flow of wake-up sends and settings clicks, with crashes *)
InitCrash == Fresh /\ budget = MaxCrashOps

NextCrash ==
    \/ \E p \in {1} :
          \/ WakeGet(p)
          \/ WakeDelete(p)
          \/ WakeSend(p)
          \/ WakeSet(p)
          \/ CallbackGet(p)
          \/ CallbackSet(p)
          \/ CallbackMenu(p)
    \/ Crash

SpecCrash == InitCrash /\ [][NextCrash]_vars

(* One sequential flow of failed-task commands and task executions *)
InitTasks == Fresh /\ budget = MaxTaskOps

NextTasks ==
    \E p \in {1} :
        \/ AddTaskLoad(p)
        \/ AddTaskSave(p)
        \/ RemoveTaskLoad(p)
        \/ RemoveTaskSave(p)
        \/ SimStart(p)
        \/ SimFailLoad(p)
        \/ SimFailSave(p)
        \/ SimFailNotify(p)
        \/ SimSuccess(p)

SpecTasks == InitTasks /\ [][NextTasks]_vars

(* One sequential flow of inbound messages and settings clicks *)
InitInbound == Fresh /\ budget = MaxInboundOps

NextInbound ==
    \E p \in {1} :
        \/ InboundStart(p)
        \/ InboundFilter(p)
        \/ InboundRoute(p)
        \/ AddTaskSave(p)
        \/ RemoveTaskSave(p)
        \/ CleanupAddSave(p)
        \/ CleanupRemoveSave(p)
        \/ CallbackGet(p)
        \/ CallbackSet(p)
        \/ CallbackMenu(p)

SpecInbound == InitInbound /\ [][NextInbound]_vars

(* Two flows sending text messages to the same chat *)
InitSend == Fresh /\ budget = MaxSendOps

NextSend ==
    \E p \in Procs :
        \/ SendMessageAcquire(p)
        \/ SendMessageChunk(p)
        \/ SendMessageReturn(p)

SpecSend == InitSend /\ [][NextSend]_vars

(* Two flows sending text messages and wake-up links, the id counter *)
(* updated without exclusion                                         *)
InitIds == Fresh /\ budget = MaxIdOps

NextIds ==
    \E p \in Procs :
        \/ IdSendMessageAcquire(p)
        \/ SendMessageReturn(p)
        \/ WakeGet(p)
        \/ WakeDelete(p)
        \/ IdKeyboardAcquire(p)
        \/ WakeSet(p)
        \/ IdLoad(p)
        \/ IdStore(p)
        \/ IdReturn(p)

SpecIds == InitIds /\ [][NextIds]_vars

(* One sequential flow of wake-up sends and text sends, with crashes *)
InitRestart == Fresh /\ budget = MaxRestartOps

NextRestart ==
    \/ \E p \in {1} :
          \/ WakeGet(p)
          \/ WakeDelete(p)
          \/ WakeSend(p)
          \/ WakeSet(p)
          \/ CallSendMessage(p)
    \/ Crash

SpecRestart == InitRestart /\ [][NextRestart]_vars

(* Two flows, every operation that touches the persisted state *)
Init == Fresh /\ budget = MaxConcOps

Next ==
    \E p \in Procs :
        \/ WakeGet(p)
        \/ WakeDelete(p)
        \/ WakeSend(p)
        \/ WakeSet(p)
        \/ CallbackGet(p)
        \/ CallbackSet(p)
        \/ CallbackMenu(p)
        \/ AddTaskLoad(p)
        \/ AddTaskSave(p)
        \/ RemoveTaskLoad(p)
        \/ RemoveTaskSave(p)
        \/ CleanupAddLoad(p)
        \/ CleanupAddSave(p)
        \/ CleanupRemoveLoad(p)
        \/ CleanupRemoveSave(p)
        \/ SimStart(p)
        \/ SimFailLoad(p)
        \/ SimFailSave(p)
        \/ SimFailNotify(p)
        \/ SimSuccess(p)

Spec == Init /\ [][Next]_vars

-----------------------------------------------------------------------------
(* Claims on the wake-up link manager and the facade *)

IsWakeReturn(e) == e.ev = "return" /\ e.op = "send_wake_up_link"
IsDeleteCall(e) == e.ev = "transport" /\ e.op = "deleteMessage"
IsSendButtons(e) == e.ev = "transport" /\ e.op = "sendButtons"

FacadeTransportOps ==
    {"sendMessage", "sendDocument", "sendButtons", "deleteMessage", "editButtonMarkup", "leaveChat"}
IsFacadeTransport(e) == e.ev = "transport" /\ e.op \in FacadeTransportOps
IsAcquire(e) == e.ev = "acquire"
\* the class the specification's section 4.3 gives each transport call
ClassOf(op) ==
    IF op \in {"sendMessage", "sendDocument", "sendButtons"} THEN "primary" ELSE "internal"

\* the event of flow p just before position i, 0 if there is none
PrevOf(i) ==
    LET before == {j \in 1..(i - 1) : trace[j].p = trace[i].p}
    IN IF before = {} THEN 0 ELSE CHOOSE j \in before : \A k \in before : k <= j
NextOf(i) ==
    LET after == {j \in (i + 1)..Len(trace) : trace[j].p = trace[i].p}
    IN IF after = {} THEN 0 ELSE CHOOSE j \in after : \A k \in after : j <= k

\* the acquire that covers the transport call at position i, 0 if there is none:
\* the flow's latest earlier event that is not a transport call of the same operation
RECURSIVE CoveringAcquire(_, _)
CoveringAcquire(i, op) ==
    LET j == PrevOf(i)
    IN IF j = 0 THEN 0
       ELSE IF IsAcquire(trace[j]) THEN j
       ELSE IF trace[j].ev = "transport" /\ trace[j].op = op THEN CoveringAcquire(j, op)
       ELSE 0

\* C1: after any sequence of sequential send_wake_up_link calls whose transport
\* calls all succeed, at most one wake-up message is live, and a live one is the
\* message whose id LAST_LINK_MESSAGE_ID holds.
C1_AtMostOneLiveWake ==
    AllIdle =>
        /\ Cardinality(LiveWake) <= 1
        /\ \A i \in LiveWake : cfg.LAST_LINK_MESSAGE_ID = Some(chat[i].id)

C1_Witness ==
    /\ AllIdle
    /\ Cardinality(Where(IsWakeReturn)) >= 2
    /\ Cardinality(LiveWake) = 1
    /\ \E i \in 1..Len(chat) : chat[i].text = WAKE_LINK_TEXT /\ ~chat[i].live

\* the history is exactly two consecutive send_wake_up_link calls, both returned
TwoSendsOnly ==
    /\ AllIdle
    /\ NumCalls = 2
    /\ \A i \in Where(IsCall) : trace[i].op = "send_wake_up_link"
    /\ Cardinality(Where(IsWakeReturn)) = 2

\* C2: from NoLinkActive, two consecutive sends returning id1 then id2 end with
\* LAST_LINK_MESSAGE_ID = id2, exactly one deleteMessage call, of id1, and
\* exactly two sendButtons calls.
C2_TwoSends ==
    TwoSendsOnly =>
        LET rets == Where(IsWakeReturn)
            r1 == CHOOSE i \in rets : \A j \in rets : i <= j
            r2 == CHOOSE i \in rets : \A j \in rets : j <= i
            id1 == trace[r1].arg
            id2 == trace[r2].arg
        IN /\ id1 # id2
           /\ cfg.LAST_LINK_MESSAGE_ID = id2
           /\ Cardinality(Where(IsDeleteCall)) = 1
           /\ \A i \in Where(IsDeleteCall) : trace[i].arg = id1
           /\ Cardinality(Where(IsSendButtons)) = 2

C2_Witness == TwoSendsOnly /\ Cardinality(Where(IsDeleteCall)) = 1

IsFailedDelete(e) == IsDeleteCall(e) /\ e.tag = "failed"

C3_FalseResultIgnored ==
    \A i \in Where(IsFailedDelete) :
        LET n == NextOf(i)
        IN (n # 0 /\ trace[n].ev # "raise") =>
             /\ IsAcquire(trace[n]) /\ trace[n].class = "primary"
             /\ NextOf(n) # 0 /\ IsSendButtons(trace[NextOf(n)])

\* C4: send_wake_up_link is restart-safe: whatever step of an earlier send a
\* crash cut short, once a send after the restart has returned at most one
\* wake-up message is live.
C4_RestartSafe ==
    (AllIdle /\ trace # <<>> /\ IsWakeReturn(trace[Len(trace)])) =>
        Cardinality(LiveWake) <= 1

\* C10: every facade operation acquires the rate limiter before its transport
\* call, with the class of the operation (sends: primary; delete, edit, leave:
\* internal), and acquires no other class.
C10_AcquireBeforeTransport ==
    /\ \A i \in Where(IsFacadeTransport) :
          LET j == CoveringAcquire(i, trace[i].op)
          IN j # 0 /\ trace[j].class = ClassOf(trace[i].op)
    /\ \A j \in Where(IsAcquire) :
          LET n == NextOf(j)
          IN n # 0 => IsFacadeTransport(trace[n]) /\ ClassOf(trace[n].op) = trace[j].class

C10_Witness ==
    /\ \E i \in Where(IsFacadeTransport) : trace[i].op = "deleteMessage"
    /\ \E i \in Where(IsFacadeTransport) :
          trace[i].op = "sendMessage" /\ PrevOf(i) # 0 /\ trace[PrevOf(i)].ev = "transport"
    /\ \E i \in Where(IsFacadeTransport) : trace[i].op = "editButtonMarkup"

-----------------------------------------------------------------------------
(* Claims on the failed-task log *)

Last(seq) == seq[Len(seq)]
IsReply(e, tag) == e.ev = "reply" /\ e.op = "context.bot.send_message" /\ e.tag = tag
IsRemoved(e) == IsReply(e, "Task removed")
IsInvalidIndex(e) == IsReply(e, "Invalid index")
IsInvalidFormat(e) == IsReply(e, "Invalid format")

\* the arguments that are integers, and the 1-based index each denotes
IntegerArgs == {<<"0">>, <<"1">>, <<"2">>, <<"3">>, <<"4">>, <<"-", "1">>}
IndexDenoted(index_str) ==
    CASE index_str = <<"0">> -> 0
      [] index_str = <<"1">> -> 1
      [] index_str = <<"2">> -> 2
      [] index_str = <<"3">> -> 3
      [] index_str = <<"4">> -> 4
      [] index_str = <<"-", "1">> -> 0 - 1

\* the step in which flow p calls remove_failed_task
CallsRemoveTask(p) ==
    /\ pc[p] = "idle"
    /\ Len(trace') > Len(trace)
    /\ trace'[Len(trace) + 1] = CallEvT(p, "remove_failed_task", <<>>, "", trace'[Len(trace) + 1].text)

\* C5: on a log of length n, remove_failed_task with an index i < 1 or i > n, or
\* with an argument that is no integer, leaves the persisted log unchanged and
\* replies with a validation message instead of raising; with 1 <= i <= n it
\* removes exactly the task at position i: the log shrinks by one and the other
\* tasks keep their order.
C5_RemoveValidates ==
    [][\A p \in Procs :
         /\ CallsRemoveTask(p) =>
              /\ tasks' = tasks
              /\ IF trace'[Len(trace) + 1].text \notin IntegerArgs
                 THEN pc'[p] = "idle" /\ IsInvalidFormat(Last(trace'))
                 ELSE pc'[p] = "rt_loaded"
         /\ (pc[p] = "rt_loaded" /\ pc'[p] # "rt_loaded") =>
              LET i == IndexDenoted(loc[p].index_str)
                  n == Len(tasks)
              IN IF i < 1 \/ i > n
                 THEN tasks' = tasks /\ IsInvalidIndex(Last(trace'))
                 ELSE /\ Len(tasks') = n - 1
                      /\ \A k \in 1..(i - 1) : tasks'[k] = tasks[k]
                      /\ \A k \in i..(n - 1) : tasks'[k] = tasks[k + 1]
                      /\ IsRemoved(Last(trace'))
                      /\ Last(trace').arg = <<i>>
                      /\ Last(trace').text = tasks[i].content_preview
      ]_vars

C5_Witness ==
    /\ AllIdle
    /\ \E i \in Where(IsRemoved) : trace[i].arg = <<2>> /\ Len(tasks) >= 1
    /\ Where(IsInvalidIndex) # {}

\* what identifies a task in a claim: a manual task by its preview, a recorded
\* failure by the message it is about
TaskKey(t) == IF t.message_id = 0 THEN <<0, t.content_preview>> ELSE <<t.message_id, <<>>>>
Keys(list) == [k \in 1..Len(list) |-> TaskKey(list[k])]
ManualKey(content) == <<0, content \o <<"...">>>>

RemoveAt(list, i) == SubSeq(list, 1, i - 1) \o SubSeq(list, i + 1, Len(list))

IsManualAdded(e) == IsReply(e, "Manual task added")
IsFailureLogged(e) == e.ev = "log" /\ e.tag = "Task FAILED persistently"
IsCallOf(e, op) == e.ev = "call" /\ e.op = op

\* the call event of the invocation that flow-event i belongs to
CallBefore(i) ==
    LET calls == {j \in 1..i : trace[j].p = trace[i].p /\ IsCall(trace[j])}
    IN CHOOSE j \in calls : \A k \in calls : k <= j

\* the log that the mutations recorded in the first k events make, in their order
RECURSIVE LogAfter(_)
LogAfter(k) ==
    IF k = 0 THEN <<>>
    ELSE LET e == trace[k]
             before == LogAfter(k - 1)
         IN IF IsManualAdded(e) THEN Append(before, ManualKey(e.text))
            ELSE IF IsFailureLogged(e) THEN Append(before, <<trace[CallBefore(k)].arg[1], <<>>>>)
            ELSE IF IsRemoved(e) THEN RemoveAt(before, e.arg[1])
            ELSE before

\* the history is three manual appends and then the removal of index 2
ThreeAppendsRemoveSecond ==
    /\ AllIdle
    /\ NumCalls = 4
    /\ \E c1, c2, c3, c4 \in Where(IsCall) :
          /\ c1 < c2 /\ c2 < c3 /\ c3 < c4
          /\ IsCallOf(trace[c1], "add_failed_task_manual")
          /\ IsCallOf(trace[c2], "add_failed_task_manual")
          /\ IsCallOf(trace[c3], "add_failed_task_manual")
          /\ IsCallOf(trace[c4], "remove_failed_task") /\ trace[c4].text = <<"2">>

\* C6: the failed-task log is in insertion order: every append, manual or by a
\* failed task execution, puts the task at the end, so the log is what the
\* appends and removals made so far yield in their order; three appends t1, t2,
\* t3 to the empty log and the removal of index 2 leave exactly [t1, t3].
C6_InsertionOrder ==
    /\ Keys(tasks) = LogAfter(Len(trace))
    /\ ThreeAppendsRemoveSecond =>
          LET calls == Where(IsCall)
              c1 == CHOOSE c \in calls : \A d \in calls : c <= d
              c3 == CHOOSE c \in calls : Cardinality({d \in calls : d < c}) = 2
          IN Keys(tasks) = <<ManualKey(trace[c1].text), ManualKey(trace[c3].text)>>

C6_Witness ==
    /\ ThreeAppendsRemoveSecond
    /\ Len(tasks) = 2
    /\ tasks[1].content_preview # tasks[2].content_preview

-----------------------------------------------------------------------------
(* Claims on flows that run concurrently *)

RECURSIVE SeqsOf(_)
\* every ordering of a finite set
SeqsOf(S) ==
    IF S = {} THEN {<<>>}
    ELSE UNION {{<<x>> \o rest : rest \in SeqsOf(S \ {x})} : x \in S}

\* whether the invocation called at position c recorded a failure
RecordedFailure(c) == \E k \in Where(IsFailureLogged) : k > c /\ CallBefore(k) = c

\* the log after the operation called at position c runs alone on log list
AppliedAlone(list, c) ==
    LET e == trace[c]
    IN IF e.op = "add_failed_task_manual" THEN Append(list, ManualKey(e.text))
       ELSE IF e.op = "simulate_task_execution" /\ RecordedFailure(c)
            THEN Append(list, <<e.arg[1], <<>>>>)
       ELSE IF e.op = "remove_failed_task" /\ e.text \in IntegerArgs
                 /\ IndexDenoted(e.text) >= 1 /\ IndexDenoted(e.text) <= Len(list)
            THEN RemoveAt(list, IndexDenoted(e.text))
       ELSE list

RECURSIVE AppliedInOrder(_, _)
AppliedInOrder(list, order) ==
    IF order = <<>> THEN list
    ELSE AppliedInOrder(AppliedAlone(list, Head(order)), Tail(order))

\* C7: failed-task log mutations are serialized over their load-modify-save
\* span: however the flows interleave, no update is lost, the final persisted
\* log is what the operations yield in some sequential order.
C7_NoLostUpdate ==
    AllIdle => \E order \in SeqsOf(Where(IsCall)) : Keys(tasks) = AppliedInOrder(<<>>, order)

IsToggleCall(e) ==
    IsCallOf(e, "handle_callback_query") /\ e.tag \in {"toggle_stickers", "toggle_photo_video"}
IsWakeCall(e) == IsCallOf(e, "send_wake_up_link")

\* C8: a load_config/save_config read-modify-write of the cleanup list never
\* loses a concurrent single-key update: after add_cleanup_string has run
\* beside one settings click or one send_wake_up_link, the persisted config
\* holds the new phrase and the single-key change.
C8_NoLostConfigUpdate ==
    (AllIdle /\ NumCalls = 2) =>
        \A a, b \in Where(IsCall) :
            (IsCallOf(trace[a], "add_cleanup_string") /\ (IsToggleCall(trace[b]) \/ IsWakeCall(trace[b]))) =>
                /\ cfg.CLEANUP_STRINGS = <<trace[a].tag>>
                /\ IsToggleCall(trace[b]) => cfg[SETTINGS_MAP_get(trace[b].tag)] = TRUE
                /\ IsWakeCall(trace[b]) =>
                      \E r \in Where(IsWakeReturn) : cfg.LAST_LINK_MESSAGE_ID = trace[r].arg

\* C9: send_wake_up_link's set_config_value is the only step that changes the
\* persisted LAST_LINK_MESSAGE_ID, in every interleaving.
C9_OnlyWakeWritesLastLink ==
    [][cfg'.LAST_LINK_MESSAGE_ID # cfg.LAST_LINK_MESSAGE_ID =>
          \E p \in Procs : pc[p] = "wk_set" /\ pc'[p] = "idle"]_vars

-----------------------------------------------------------------------------
(* Claims on api_send_message *)

IsSendReturn(e) == e.ev = "return" /\ e.op = "api_send_message"
IsSendTransport(e) == e.ev = "transport" /\ e.op = "sendMessage"
\* the text the chat holds under a message id
ChatText(id) == chat[CHOOSE i \in 1..Len(chat) : chat[i].id = id].text

RECURSIVE Flatten(_)
Flatten(chunks) == IF chunks = <<>> THEN <<>> ELSE Head(chunks) \o Flatten(Tail(chunks))

\* C11: api_send_message(chat, text) issues exactly one transport send per chunk
\* of split(text), in chunk order (after its one acquire, before it returns),
\* and returns the identifier given to the final chunk; the chunker yields at
\* least one chunk, so the result is never absent.
C11_OneSendPerChunk ==
    \A r \in Where(IsSendReturn) :
        LET c == CallBefore(r)
            chunks == split_long_message(trace[c].text)
            n == Len(chunks)
        IN /\ n >= 1
           /\ Flatten(chunks) = trace[c].text
           /\ r = c + n + 2
           /\ IsAcquire(trace[c + 1])
           /\ \A k \in 1..n :
                 /\ IsSendTransport(trace[c + 1 + k])
                 /\ ChatText(trace[c + 1 + k].arg[1]) = chunks[k]
           /\ \A k \in 1..(n - 1) : trace[c + 1 + k].arg[1] < trace[c + 2 + k].arg[1]
           /\ trace[r].arg # None
           /\ trace[r].arg = Some(trace[c + 1 + n].arg[1])

C11_Witness ==
    \E r \in Where(IsSendReturn) :
        /\ Len(split_long_message(trace[CallBefore(r)].text)) = 2
        /\ \E q \in Where(IsSendReturn) : trace[CallBefore(q)].text = <<>>

\* C12: when two api_send_message calls to the same chat run concurrently,
\* the chunks of each call are sent in sequence order and contiguously: no
\* chunk of one call is sent between two chunks of the other call.
C12_ChunksContiguous ==
    \A i, j, k \in Where(IsSendTransport) :
        (i < j /\ j < k /\ trace[i].p = trace[k].p /\ CallBefore(i) = CallBefore(k)) =>
            trace[j].p = trace[i].p

\* the chunks of one call reach the chat in sequence order
C12_ChunksInOrder ==
    \A r \in Where(IsSendReturn) :
        LET c == CallBefore(r)
            chunks == split_long_message(trace[c].text)
            sent == {i \in Where(IsSendTransport) : trace[i].p = trace[c].p /\ c < i /\ i < r}
        IN /\ Cardinality(sent) = Len(chunks)
           /\ \A i \in sent :
                 ChatText(trace[i].arg[1]) = chunks[Cardinality({j \in sent : j <= i})]

-----------------------------------------------------------------------------
(* Claims on the inbound message handler *)

\* the call event of the operation flow p is in, 0 if it never started one
CurrentCall(p) ==
    LET calls == {j \in 1..Len(trace) : trace[j].p = p /\ IsCall(trace[j])}
    IN IF calls = {} THEN 0 ELSE CHOOSE j \in calls : \A k \in calls : k <= j

\* this step starts an operation of flow p: its call event is the first new event
Starts(p) == pc[p] = "idle" /\ Len(trace') > Len(trace) /\ trace'[Len(trace) + 1].p = p
StartedCall == trace'[Len(trace) + 1]

IsInboundCall(e) == IsCallOf(e, "handle_incoming_message")
FromUserId(e) == Tail(e.arg)
IsLargeCall(e) ==
    \/ IsCallOf(e, "simulate_task_execution") /\ e.tag = "large"
    \/ IsInboundCall(e) /\ IsLargeFile(e.tag, e.arg[1])

\* this step is a step of an operation of flow p whose payload is over the size ceiling
HandlesLargeFile(p) ==
    \/ pc[p] # "idle" /\ pc'[p] # pc[p] /\ IsLargeCall(trace[CurrentCall(p)])
    \/ Starts(p) /\ IsLargeCall(StartedCall)

\* C13: a payload over the size ceiling short-circuits before any processing
\* or persistence: no step of simulate_task_execution or handle_incoming_message
\* handling it changes the failed-task log or the config store.
C13_LargeFileShortCircuits ==
    [][\A p \in Procs : HandlesLargeFile(p) => tasks' = tasks /\ cfg' = cfg]_vars

IsOutboundSend(e) ==
    \/ e.ev = "transport" /\ e.op \in {"sendMessage", "sendDocument", "sendButtons"}
    \/ e.ev = "reply" /\ e.op = "context.bot.send_message"

\* C15: the facade is the single choke point: every outbound send, the
\* handlers' replies included, is a facade transport call covered by a rate
\* limiter acquire.
C15_FacadeChokePoint ==
    \A i \in Where(IsOutboundSend) :
        IsFacadeTransport(trace[i]) /\ CoveringAcquire(i, trace[i].op) # 0

IsDenial(e) == IsReply(e, "Unauthorized access denied")

FilterRejects(c, e) ==
    \/ c.PHOTO_VIDEO_ONLY_ENABLED /\ e.tag \notin {"photo", "video"}
    \/ c.STICKER_BLOCK_ENABLED /\ e.tag = "sticker"

\* C20: the message-type filter runs before any routing or persistence: an
\* owner message that the settings reject (not photo or video while
\* PHOTO_VIDEO_ONLY_ENABLED, a sticker while STICKER_BLOCK_ENABLED) ends at
\* the filter, and nothing is persisted up to and at the filter.
C20_FilterBeforeRouting ==
    [][\A p \in Procs :
          /\ (pc[p] = "idle" /\ pc'[p] = "in_filter") => cfg' = cfg /\ tasks' = tasks
          /\ (pc[p] = "in_filter" /\ pc'[p] # pc[p]) => cfg' = cfg /\ tasks' = tasks
          /\ (pc[p] = "in_filter" /\ pc'[p] # pc[p] /\ FilterRejects(cfg, trace[CurrentCall(p)])) =>
                 pc'[p] = "idle" /\ loc'[p] = NoLoc]_vars

C20_Witness ==
    /\ AllIdle
    /\ cfg.PHOTO_VIDEO_ONLY_ENABLED
    /\ tasks = <<>> /\ cfg.CLEANUP_STRINGS = <<>>
    /\ \E i \in Where(IsInboundCall) :
          /\ FromUserId(trace[i]) = Owner /\ IsLargeCall(trace[i]) /\ trace[i].tag = "document"
          /\ i < Len(trace) /\ IsReply(trace[i + 1], "Filter Active")
    /\ \E i \in Where(IsInboundCall) :
          /\ FromUserId(trace[i]) = Owner /\ StartsWithSlash(trace[i].text)
          /\ i = Len(trace)

-----------------------------------------------------------------------------
(* Claims on simulate_task_execution *)

IsSimCall(e) == IsCallOf(e, "simulate_task_execution")
IsSimReturn(e) == e.ev = "return" /\ e.op = "simulate_task_execution"
\* the events a step appends
NewEvents == SubSeq(trace', Len(trace) + 1, Len(trace'))
\* the operation of flow p has sent a message since its call
HasSent(p) == \E i \in Where(IsSendTransport) : trace[i].p = p /\ i > CurrentCall(p)

\* C14: in simulate_task_execution a transient failure is recovered: exactly
\* one FailedTask with the call's chat_id and message_id is appended to the
\* persisted log, before the failure notice is sent, and the function returns
\* False; the success path and the large-file path append nothing.
C14_TransientFailureRecorded ==
    [][\A p \in Procs :
          /\ (Starts(p) /\ IsSimCall(StartedCall)) =>
                 /\ tasks' = tasks
                 /\ StartedCall.tag = "large" =>
                        pc'[p] = "idle" /\ Last(trace') = ReturnEv(p, "simulate_task_execution", <<0>>)
          /\ (pc[p] = "sim_cleaned" /\ pc'[p] = "sim_loaded") => tasks' = tasks
          /\ (pc[p] = "sim_cleaned" /\ pc'[p] = "idle") =>
                 /\ tasks' = tasks
                 /\ Last(trace') = ReturnEv(p, "simulate_task_execution", <<1>>)
          /\ (pc[p] = "sim_loaded" /\ pc'[p] # pc[p]) =>
                 /\ pc'[p] = "sim_saved"
                 /\ Len(tasks') = Len(tasks) + 1
                 /\ SubSeq(tasks', 1, Len(tasks)) = tasks
                 /\ Last(tasks').chat_id = ChatId
                 /\ Last(tasks').message_id = trace[CurrentCall(p)].arg[1]
                 /\ ~HasSent(p)
                 /\ \A k \in 1..Len(NewEvents) : ~IsSendTransport(NewEvents[k])
          /\ (pc[p] = "sim_saved" /\ pc'[p] # pc[p]) =>
                 /\ pc'[p] = "idle"
                 /\ tasks' = tasks
                 /\ \E k \in 1..Len(NewEvents) : IsSendTransport(NewEvents[k])
                 /\ Last(trace') = ReturnEv(p, "simulate_task_execution", <<0>>)]_vars

C14_Witness ==
    /\ AllIdle
    /\ \E r \in Where(IsSimReturn) :
          /\ trace[r].arg = <<0>>
          /\ trace[CallBefore(r)].tag = ""
          /\ \E l \in CallBefore(r)..r : trace[l].ev = "log"
    /\ \E r \in Where(IsSimReturn) : trace[r].arg = <<1>>
    /\ \E r \in Where(IsSimReturn) : trace[r].arg = <<0>> /\ trace[CallBefore(r)].tag = "large"
    /\ Len(tasks) = 1
    /\ tasks[1].message_id \in MessageIds

-----------------------------------------------------------------------------
(* Claims on the rate limiter *)

IsPrimaryGrant(e) == IsAcquire(e) /\ e.class = "primary"
IsPrimarySend(e) == e.ev = "transport" /\ e.op \in {"sendMessage", "sendDocument", "sendButtons"}
\* the time at which the event at position i happened
TimeOf(i) == Now(SubSeq(trace, 1, i))

\* consecutive grants of the primary class are min_interval(primary) apart
C16_GrantsSpaced ==
    \A i, j \in Where(IsPrimaryGrant) :
        i < j => trace[j].arg[1] - trace[i].arg[1] >= min_interval("primary")

\* C16: for any sequence of primary-class sends, consecutive primary grants
\* are at least min_interval(primary) apart, and so are consecutive primary
\* transport sends, the per-chunk sends of one api_send_message included.
C16_PrimarySendsSpaced ==
    /\ C16_GrantsSpaced
    /\ \A i, j \in Where(IsPrimarySend) :
          i < j => TimeOf(j) - TimeOf(i) >= min_interval("primary")

-----------------------------------------------------------------------------
(* Claims on the config store *)

IsCallbackCall(e) == IsCallOf(e, "handle_callback_query")
\* the acknowledgement sent when the toggle's set_config_value has returned
IsToggleAnswer(e) == e.ev = "reply" /\ e.op = "query.answer" /\ e.tag \in {"ON", "OFF"}
\* the key the settings map gives a button
ToggledKey(data) ==
    IF data = "toggle_stickers" THEN "STICKER_BLOCK_ENABLED" ELSE "PHOTO_VIDEO_ONLY_ENABLED"

\* the config that the set_config_value calls returned within the first k
\* events make, applied in order to the documented defaults
RECURSIVE ConfigAfter(_)
ConfigAfter(k) ==
    IF k = 0 THEN DefaultConfig
    ELSE LET e == trace[k]
             before == ConfigAfter(k - 1)
         IN IF IsWakeReturn(e) THEN [before EXCEPT !.LAST_LINK_MESSAGE_ID = e.arg]
            ELSE IF IsToggleAnswer(e)
            THEN [before EXCEPT ![ToggledKey(trace[CallBefore(k)].tag)] = (e.tag = "ON")]
            ELSE before

TwoClicks(c1, c2) ==
    /\ AllIdle
    /\ c1 < c2
    /\ IsCallbackCall(trace[c1]) /\ IsCallbackCall(trace[c2])
    /\ trace[c1].tag = trace[c2].tag
    /\ trace[c1].tag \in {"toggle_stickers", "toggle_photo_video"}
    /\ Len(trace) = c2 + 2 /\ c2 = c1 + 3
    /\ IsToggleAnswer(trace[c1 + 1]) /\ IsToggleAnswer(trace[c2 + 1])

\* C18: a click of toggle_stickers or toggle_photo_video negates exactly the
\* mapped key and leaves every other key and the failed-task log unchanged;
\* missing or unrecognized data changes nothing; two sequential clicks of the
\* same button restore the config.
C18_ToggleFrame ==
    /\ [][\A p \in Procs :
             /\ (Starts(p) /\ IsCallbackCall(StartedCall)) =>
                    /\ cfg' = cfg /\ tasks' = tasks
                    /\ StartedCall.tag \notin {"toggle_stickers", "toggle_photo_video"} => pc'[p] = "idle"
             /\ (pc[p] = "cb_set" /\ pc'[p] = "cb_menu") =>
                    LET key == ToggledKey(trace[CurrentCall(p)].tag)
                    IN cfg' = [cfg EXCEPT ![key] = ~cfg[key]] /\ tasks' = tasks
             /\ (pc[p] = "cb_menu" /\ pc'[p] # pc[p]) => cfg' = cfg /\ tasks' = tasks]_vars
    /\ [](\A c1, c2 \in Where(IsCallbackCall) : TwoClicks(c1, c2) => cfg = ConfigAfter(c1 - 1))

C18_Witness ==
    /\ \E c1, c2 \in Where(IsCallbackCall) : TwoClicks(c1, c2)
    /\ cfg # DefaultConfig

-----------------------------------------------------------------------------
(* Claims on the message identifiers *)

\* a transport call that was given a fresh identifier
IsIdAssigned(e) == e.ev = "transport" /\ e.op \in {"sendMessage", "sendButtons"}
\* positions i < j lie in the same process lifetime
SameLifetime(i, j) == \A c \in Where(IsCrash) : c < i \/ j < c

\* within a process lifetime every identifier is greater than all assigned before it
C21_IdsIncrease ==
    \A i, j \in Where(IsIdAssigned) :
        (i < j /\ SameLifetime(i, j)) => trace[i].arg[1] < trace[j].arg[1]

\* the stored LAST_LINK_MESSAGE_ID is not the id of a message that is no wake-up link
C21_LastLinkIsWakeLink ==
    \A m \in 1..Len(chat) :
        cfg.LAST_LINK_MESSAGE_ID = Some(chat[m].id) =>
            chat[m].kind = "keyboard" /\ chat[m].text = WAKE_LINK_TEXT

\* C21: the identifiers handed out by get_next_mock_message_id are unique and
\* strictly increasing over the process lifetime, also when sends run
\* concurrently, so the id stored in LAST_LINK_MESSAGE_ID never equals the id
\* of a message that is not a wake-up link.
C21_IdsUniqueIncreasing ==
    C21_IdsIncrease /\ C21_LastLinkIsWakeLink

====
